---------------------------- MODULE Spec2Model ----------------------------
(***************************************************************************)
(* A model of crawler.py (TripAdvisor hotel review crawler).               *)
(*                                                                         *)
(* Python strings are TLA+ strings (TLC evaluates Len, SubSeq, Head, Tail  *)
(* and \o on them).  A call of a Python function ends either by returning  *)
(* a value, Ret(v), or by raising an exception, Raise(e).                  *)
(***************************************************************************)
EXTENDS Integers, Sequences, FiniteSets, TLC

VARIABLES
    op,            \* the module-level function or accessor that was called
    arg,           \* its argument
    ret,           \* its outcome: Ret(value) or Raise(exception)
    page_source,   \* driver.page_source: the document the browser shows
    data,          \* TripAdvisorHotelPage.data: column name -> list
    review_count,  \* TripAdvisorHotelPage.review_count
    calls,         \* history: one entry per parse() call, [page, exc]
    pc,            \* position inside collect()
    hotel,         \* the review pages of the hotel behind the driver
    cur,           \* index of the page the driver currently shows
    close,         \* collect's parameter
    driver_open,   \* FALSE once driver.close() ran
    clicks         \* history: [from, to], the page each click('Next') was made
                   \* on and the page it led to

callVars == <<op, arg, ret>>
pageVars == <<page_source, data, review_count, calls>>
collectVars == <<pc, hotel, cur, close, driver_open, clicks>>
vars == <<op, arg, ret, page_source, data, review_count, calls,
          pc, hotel, cur, close, driver_open, clicks>>

----------------------------------------------------------------------------
(* Bounds of the model. *)

\* most comma-separated groups of a number string
MaxGroups == 4
\* most strings in a reviewer_details list
MaxDetails == 2
\* most amenity groups in a review block
MaxAmenityGroups == 2
\* most review blocks on a page
MaxBlocks == 3
\* most parse() calls on one TripAdvisorHotelPage object
MaxCalls == 2
\* most review pages of a hotel
MaxPages == 4

----------------------------------------------------------------------------
(* Python values and outcomes. *)

Ret(v) == [exc |-> "", val |-> v]
Raise(e) == [exc |-> e]
Returned(r) == r.exc = ""

PyNone == [t |-> "None"]
PyStr(s) == [t |-> "str", v |-> s]
PyTag(n) == [t |-> "Tag", v |-> n]

----------------------------------------------------------------------------
(* Strings. *)

CharAt(s, i) == SubSeq(s, i, i)

\* s[i] with a negative Python index i = -k: the k-th character from the end
CharFromEnd(s, k) == CharAt(s, Len(s) - k + 1)

Digits == {"0", "1", "2", "3", "4", "5", "6", "7", "8", "9"}

DigitVal(c) ==
    CASE c = "0" -> 0 [] c = "1" -> 1 [] c = "2" -> 2 [] c = "3" -> 3
      [] c = "4" -> 4 [] c = "5" -> 5 [] c = "6" -> 6 [] c = "7" -> 7
      [] c = "8" -> 8 [] c = "9" -> 9

\* whether int(s) succeeds, for s over digits, letters and punctuation
IsIntLiteral(s) == Len(s) > 0 /\ \A i \in 1..Len(s) : CharAt(s, i) \in Digits

RECURSIVE IntOf(_)
\* int(s) for a string of digits
IntOf(s) ==
    IF Len(s) = 0 THEN 0
    ELSE 10 * IntOf(SubSeq(s, 1, Len(s) - 1)) + DigitVal(CharAt(s, Len(s)))

\* the index of the first occurrence of the character sep in s, 0 if none
FirstIndex(s, sep) ==
    IF \E i \in 1..Len(s) : CharAt(s, i) = sep
    THEN CHOOSE i \in 1..Len(s) :
             /\ CharAt(s, i) = sep
             /\ \A j \in 1..(i - 1) : CharAt(s, j) # sep
    ELSE 0

RECURSIVE Split(_, _)
\* s.split(sep) for a one-character sep: empty pieces are kept
Split(s, sep) ==
    LET i == FirstIndex(s, sep) IN
    IF i = 0 THEN <<s>>
    ELSE <<SubSeq(s, 1, i - 1)>> \o Split(SubSeq(s, i + 1, Len(s)), sep)

StartsWith(s, prefix) ==
    Len(s) >= Len(prefix) /\ SubSeq(s, 1, Len(prefix)) = prefix

----------------------------------------------------------------------------
(* str2int and split_contributions_votes. *)

\* str2int with the two-group case scaled by 100 instead of 1000
str2int_scaled(string_number, sep) ==
    LET numbers == Split(string_number, sep) IN
    IF \E i \in 1..Len(numbers) : ~IsIntLiteral(numbers[i])
    THEN Raise("ValueError")
    ELSE LET ints == [i \in 1..Len(numbers) |-> IntOf(numbers[i])] IN
         IF Len(numbers) = 1 THEN Ret(ints[1])
         ELSE IF Len(numbers) = 2 THEN Ret(ints[1] * 100 + ints[2])
         ELSE Ret(ints[1] * 1000000 + ints[2] * 1000 + ints[3])

str2int(string_number, sep) ==
    LET numbers == Split(string_number, sep) IN
    IF \E i \in 1..Len(numbers) : ~IsIntLiteral(numbers[i])
    THEN Raise("ValueError")
    ELSE LET ints == [i \in 1..Len(numbers) |-> IntOf(numbers[i])] IN
         IF Len(numbers) = 1 THEN Ret(ints[1])
         ELSE IF Len(numbers) = 2 THEN Ret(ints[1] * 1000 + ints[2])
         ELSE Ret(ints[1] * 1000000 + ints[2] * 1000 + ints[3])

\* x in detail, for a list of strings
InList(x, detail) == \E i \in 1..Len(detail) : detail[i] = x

RECURSIVE SplitLoop(_, _, _, _)
\* the for loop of split_contributions_votes from position i on
SplitLoop(splitted, i, contributions, votes) ==
    IF i > Len(splitted) THEN Ret(<<contributions, votes>>)
    ELSE LET detail == splitted[i]
             n == str2int(detail[1], ",")
         IN  IF ~Returned(n) THEN n
             ELSE IF InList("contribution", detail) \/ InList("contributions", detail)
                  THEN SplitLoop(splitted, i + 1, n.val, votes)
                  ELSE SplitLoop(splitted, i + 1, contributions, n.val)

\* split_contributions_votes returning the pair in the order (votes, contributions)
split_contributions_votes_swapped(details) ==
    IF Len(details) # 0
    THEN LET splitted == [i \in 1..Len(details) |-> Split(details[i], " ")]
             r == SplitLoop(splitted, 1, 0, 0)
         IN  IF Returned(r) THEN Ret(<<r.val[2], r.val[1]>>) ELSE r
    ELSE Ret(<<0, 0>>)

split_contributions_votes(details) ==
    IF Len(details) # 0
    THEN LET splitted == [i \in 1..Len(details) |-> Split(details[i], " ")]
         IN  SplitLoop(splitted, 1, 0, 0)
    ELSE Ret(<<0, 0>>)

----------------------------------------------------------------------------
(* The inputs of the numeric functions. *)

FirstGroups == {"0", "1", "2", "12", "523"}
TailGroups == {"000", "034", "199", "416"}

RECURSIVE Grouped(_)
\* the number strings of exactly k comma-separated groups
Grouped(k) ==
    IF k = 1 THEN FirstGroups
    ELSE {s \o "," \o g : s \in Grouped(k - 1), g \in TailGroups}

\* s without its separators
Plain(s) == SelectSeq(s, LAMBDA c : c # ",")

RECURSIVE StripZeros(_)
StripZeros(s) ==
    IF Len(s) > 1 /\ Head(s) = "0" THEN StripZeros(Tail(s)) ELSE s

\* the value of s is below 2,000,000,000, so the model's integers hold it
FitsInt(s) ==
    LET d == StripZeros(Plain(s)) IN
    Len(d) <= 9 \/ (Len(d) = 10 /\ Head(d) = "1")

WellFormedNumbers ==
    {s \in UNION {Grouped(k) : k \in 1..MaxGroups} : FitsInt(s)}

\* strings int() rejects in one of their groups, and a string whose second
\* group is short
MalformedNumbers == {"", "n/a", "1,,416", "12a,000", "1,41"}

NumberStrings == WellFormedNumbers \cup MalformedNumbers

DetailNumbers == {"3", "523", "1,416", "n/a"}
DetailPhrases == {" contributions", " contribution", " helpful votes",
                  " helpful vote", " contributions.", ""}
DetailStrings == {n \o p : n \in DetailNumbers, p \in DetailPhrases}

RECURSIVE SeqsUpTo(_, _)
\* the sequences over S of length at most n
SeqsUpTo(S, n) ==
    IF n = 0 THEN {<<>>}
    ELSE LET shorter == SeqsUpTo(S, n - 1) IN
         shorter \cup {Append(q, x) : q \in shorter, x \in S}

DetailLists == SeqsUpTo(DetailStrings, MaxDetails)

NotCalled == [exc |-> "not called"]

----------------------------------------------------------------------------
(* The parsed document: what BeautifulSoup gives.  An element has a tag, a *)
(* class attribute (the list of its tokens, empty when the attribute is    *)
(* absent) and children; a text node has its string.                       *)

Elem(tag, cls, kids) == [tag |-> tag, class |-> cls, kids |-> kids, text |-> ""]
TextNode(s) == [tag |-> "#text", class |-> <<>>, kids |-> <<>>, text |-> s]

RECURSIVE DescOfSeq(_)
\* the descendants of the nodes of a child list, in document order
DescOfSeq(kids) ==
    IF Len(kids) = 0 THEN <<>>
    ELSE <<Head(kids)>> \o DescOfSeq(Head(kids).kids) \o DescOfSeq(Tail(kids))

Descendants(node) == DescOfSeq(node.kids)

RECURSIVE ConcatText(_)
ConcatText(nodes) ==
    IF Len(nodes) = 0 THEN ""
    ELSE Head(nodes).text \o ConcatText(Tail(nodes))

\* node.text: the strings of all text nodes below node, concatenated
GetText(node) == ConcatText(Descendants(node))

RECURSIVE Join(_)
\* " ".join(tokens)
Join(tokens) ==
    IF Len(tokens) = 0 THEN ""
    ELSE IF Len(tokens) = 1 THEN tokens[1]
    ELSE tokens[1] \o " " \o Join(Tail(tokens))

\* trip_advisor_map
trip_advisor_map ==
    [review_block         |-> [tag |-> "div",  class |-> "_2wrUUKlw _3hFEdNs8"],
     reviewer_name        |-> [tag |-> "a",    class |-> "ui_header_link _1r_My98y"],
     reviewer_name_n_date |-> [tag |-> "div",  class |-> "_2fxQ4TOx"],
     reviewer_origin      |-> [tag |-> "span", class |-> "default _3J15flPT small"],
     reviewer_rating      |-> [tag |-> "div",  class |-> "nf9vGX55"],
     reviewer_details     |-> [tag |-> "span", class |-> "_3fPsSAYi"],
     review_title         |-> [tag |-> "a",    class |-> "ocfR3SKN"],
     review_text          |-> [tag |-> "q",    class |-> "IRsGHoPm"],
     stay_date            |-> [tag |-> "span", class |-> "_34Xs-BQm"],
     trip_type            |-> [tag |-> "span", class |-> "_2bVY3aT5"],
     amenity_group        |-> [tag |-> "div",  class |-> "_3ErKuh24 _1OrVnQ-J"],
     amenity              |-> [tag |-> "span", class |-> "_3-8hSrXs"],
     button_readmore      |-> [tag |-> "span", class |-> "_3maEfNCR"],
     button_next          |-> [tag |-> "div",  class |-> "_16gKMTFp"]]

\* whether find(tag, {'class': cls}) takes the node: the tag is the same and
\* cls is the whole class attribute or one of its tokens
Matches(node, loc) ==
    /\ node.tag = loc.tag
    /\ \/ Len(node.class) > 0 /\ Join(node.class) = loc.class
       \/ \E i \in 1..Len(node.class) : node.class[i] = loc.class

\* soup.find_all(tag, {'class': cls})
FindAll(soup, loc) == SelectSeq(Descendants(soup), LAMBDA n : Matches(n, loc))

\* node.find_all(class_=True): the descendants that have a class attribute
FindAllClassed(node) == SelectSeq(Descendants(node), LAMBDA n : Len(n.class) > 0)

\* node.find_all(text=True): the text nodes below node
FindAllText(node) == SelectSeq(Descendants(node), LAMBDA n : n.tag = "#text")

----------------------------------------------------------------------------
(* parse and multi_parse. *)

\* parse letting the KeyError of an unregistered name reach the caller
parse_keyerror(soup, ta_object, text) ==
    IF ta_object \notin DOMAIN trip_advisor_map THEN Raise("KeyError")
    ELSE LET found == FindAll(soup, trip_advisor_map[ta_object]) IN
         IF Len(found) > 0
         THEN IF text THEN Ret(PyStr(GetText(found[1]))) ELSE Ret(PyTag(found[1]))
         ELSE Ret(PyNone)

parse(soup, ta_object, text) ==
    LET found == IF ta_object \in DOMAIN trip_advisor_map
                 THEN FindAll(soup, trip_advisor_map[ta_object])
                 ELSE <<>>  \* KeyError caught: content = None
    IN  IF Len(found) > 0
        THEN IF text THEN Ret(PyStr(GetText(found[1]))) ELSE Ret(PyTag(found[1]))
        ELSE Ret(PyNone)

multi_parse(soup, ta_object, text) ==
    LET content == IF ta_object \in DOMAIN trip_advisor_map
                   THEN FindAll(soup, trip_advisor_map[ta_object])
                   ELSE <<>>  \* KeyError caught: content = None
    IN  IF Len(content) > 0
        THEN IF text THEN Ret([i \in 1..Len(content) |-> GetText(content[i])])
             ELSE Ret(content)
        ELSE Ret(<<>>)

----------------------------------------------------------------------------
(* The rating decoders. *)

\* value['class'][1][-2]: the last but one character of the second class token
ClassDigit(value) ==
    IF Len(value.class) < 2 THEN Raise("IndexError")
    ELSE LET rating_text == value.class[2] IN
         IF Len(rating_text) < 2 THEN Raise("IndexError")
         ELSE Ret(CharFromEnd(rating_text, 2))

\* int(c) for a character c
IntOfChar(c) == IF c \in Digits THEN Ret(DigitVal(c)) ELSE Raise("ValueError")

extract_rating(soup) ==
    LET found == FindAll(soup, trip_advisor_map.reviewer_rating) IN
    IF Len(found) = 0 THEN Raise("AttributeError")  \* None.find
    ELSE LET classed == FindAllClassed(found[1]) IN
         IF Len(classed) = 0 THEN Raise("TypeError")  \* None['class']
         ELSE LET c == ClassDigit(classed[1]) IN
              IF Returned(c) THEN IntOfChar(c.val) ELSE c

----------------------------------------------------------------------------
(* TripAdvisorReviewBlock: the field accessors of one review block. *)

\* the accessor pattern: parse, then '' in place of None
TextOrEmpty(soup, ta_object) ==
    LET r == parse(soup, ta_object, TRUE) IN
    IF r.val = PyNone THEN Ret(PyStr("")) ELSE r

reviewer_name(soup) == TextOrEmpty(soup, "reviewer_name")

\* the try body is a bare return of the parsed value: nothing in it raises
\* AttributeError, so None is returned as it is
review_date(soup) == parse(soup, "reviewer_name_n_date", TRUE)

reviewer_origin(soup) == TextOrEmpty(soup, "reviewer_origin")

reviewer_rating(soup) == extract_rating(soup)

reviewer_details(soup) ==
    split_contributions_votes(multi_parse(soup, "reviewer_details", TRUE).val)

review_title(soup) == TextOrEmpty(soup, "review_title")

review_text(soup) == TextOrEmpty(soup, "review_text")

stay_date(soup) == TextOrEmpty(soup, "stay_date")

trip_type(soup) == TextOrEmpty(soup, "trip_type")

RECURSIVE Flatten(_)
\* the concatenation of a sequence of sequences
Flatten(ss) == IF Len(ss) = 0 THEN <<>> ELSE Head(ss) \o Flatten(Tail(ss))

MinOf(a, b) == IF a <= b THEN a ELSE b

\* list(zip(a, b)): as long as the shorter list
Zip(a, b) == [i \in 1..MinOf(Len(a), Len(b)) |-> <<a[i], b[i]>>]

\* the class-bearing elements below the amenity spans of one amenity group
GroupRatingValues(amenity) ==
    LET spans == FindAll(amenity, trip_advisor_map.amenity) IN
    Flatten([i \in 1..Len(spans) |-> FindAllClassed(spans[i])])

amenities_rating(soup) ==
    LET amenities == FindAll(soup, trip_advisor_map.amenity_group) IN
    IF Len(amenities) > 0
    THEN LET texts == Flatten([i \in 1..Len(amenities) |-> FindAllText(amenities[i])])
             amenity_name == [i \in 1..Len(texts) |-> texts[i].text]
             values == Flatten([i \in 1..Len(amenities) |->
                                   GroupRatingValues(amenities[i])])
             chars == [i \in 1..Len(values) |-> ClassDigit(values[i])]
         IN  IF \E i \in 1..Len(chars) : ~Returned(chars[i])
             THEN Raise("IndexError")
             ELSE Ret(Zip(amenity_name,
                          [i \in 1..Len(chars) |-> PyStr(chars[i].val)]))
    ELSE Ret(<<>>)

Accessors == {"reviewer_name", "review_date", "reviewer_origin", "reviewer_rating",
              "reviewer_details", "review_title", "review_text", "stay_date",
              "trip_type", "amenities_rating"}

\* tarb.<name> for a TripAdvisorReviewBlock over soup
Access(soup, name) ==
    CASE name = "reviewer_name"    -> reviewer_name(soup)
      [] name = "review_date"      -> review_date(soup)
      [] name = "reviewer_origin"  -> reviewer_origin(soup)
      [] name = "reviewer_rating"  -> reviewer_rating(soup)
      [] name = "reviewer_details" -> reviewer_details(soup)
      [] name = "review_title"     -> review_title(soup)
      [] name = "review_text"      -> review_text(soup)
      [] name = "stay_date"        -> stay_date(soup)
      [] name = "trip_type"        -> trip_type(soup)
      [] name = "amenities_rating" -> amenities_rating(soup)

----------------------------------------------------------------------------
(* The review blocks the model feeds to the extractors, built the way the  *)
(* site writes them.                                                       *)

ClassTokens(key) == Split(trip_advisor_map[key].class, " ")

FieldElem(key, t) ==
    Elem(trip_advisor_map[key].tag, ClassTokens(key), <<TextNode(t)>>)

TextKeys == {"reviewer_name", "reviewer_name_n_date", "reviewer_origin",
             "review_title", "review_text", "stay_date", "trip_type"}

\* which of the text fields a block has: all, none, or all but one
Presences ==
    {f \in [TextKeys -> BOOLEAN] :
        Cardinality({k \in TextKeys : ~f[k]}) \in {0, 1, Cardinality(TextKeys)}}

Opt(present, node) == IF present THEN <<node>> ELSE <<>>

\* the reviewer's name is a link inside the name-and-date line
HeaderKids(f) ==
    IF f["reviewer_name_n_date"]
    THEN <<Elem("div", ClassTokens("reviewer_name_n_date"),
                Opt(f["reviewer_name"], FieldElem("reviewer_name", "Maria"))
                \o <<TextNode(" wrote a review Sep 2020")>>)>>
    ELSE Opt(f["reviewer_name"], FieldElem("reviewer_name", "Maria"))

BodyKids(f) ==
    Opt(f["reviewer_origin"], FieldElem("reviewer_origin", "Athens, Greece"))
    \o Opt(f["review_title"], FieldElem("review_title", "Great stay"))
    \o Opt(f["review_text"], FieldElem("review_text", "Lovely hotel."))
    \o Opt(f["stay_date"], FieldElem("stay_date", "Date of stay: August 2020"))
    \o Opt(f["trip_type"], FieldElem("trip_type", "Trip type: Traveled solo"))

Bubble(tokens) == Elem("span", tokens, <<>>)

RatingDiv(kids) == Elem("div", ClassTokens("reviewer_rating"), kids)

\* the reviewer-rating part of a block: absent, without a class-bearing
\* child, or with a bubble whose class tokens vary
RatingVariants ==
    {<<>>,
     <<RatingDiv(<<>>)>>,
     <<RatingDiv(<<Elem("span", <<>>, <<>>)>>)>>,
     <<RatingDiv(<<Bubble(<<"ui_bubble_rating", "bubble_50">>)>>)>>,
     <<RatingDiv(<<Bubble(<<"ui_bubble_rating", "bubble_30">>)>>)>>,
     <<RatingDiv(<<Bubble(<<"ui_bubble_rating">>)>>)>>,
     <<RatingDiv(<<Bubble(<<"ui_bubble_rating", "bubble_5">>)>>)>>}

DetailSpan(d) ==
    Elem("span", ClassTokens("reviewer_details"),
         <<Elem("span", <<"_1fk70GUn">>, <<TextNode(d[1])>>), TextNode(d[2])>>)

BlockDetails ==
    {<<>>,
     <<<<"1,416", " contributions">>>>,
     <<<<"1,416", " contributions">>, <<"523", " helpful votes">>>>,
     <<<<"n/a", " contributions">>>>}

AmenityGroup(ratingKids, textKids) ==
    Elem("div", ClassTokens("amenity_group"),
         <<Elem("span", ClassTokens("amenity"), ratingKids)>> \o textKids)

AmenityGroupVariants ==
    {AmenityGroup(<<Bubble(<<"ui_bubble_rating", "bubble_50">>)>>,
                  <<Elem("span", <<>>, <<TextNode("Value")>>)>>),
     AmenityGroup(<<Bubble(<<"ui_bubble_rating", "bubble_30">>)>>,
                  <<Elem("span", <<>>, <<TextNode("Rooms")>>)>>),
     \* a second text node in the group
     AmenityGroup(<<Bubble(<<"ui_bubble_rating", "bubble_40">>)>>,
                  <<Elem("span", <<>>, <<TextNode("Service")>>), TextNode(" ")>>),
     \* a group whose rating bubble is missing
     AmenityGroup(<<>>, <<Elem("span", <<>>, <<TextNode("Location")>>)>>),
     \* a bubble with a single class token
     AmenityGroup(<<Bubble(<<"ui_bubble_rating">>)>>,
                  <<Elem("span", <<>>, <<TextNode("Sleep Quality")>>)>>)}

AmenityLists == SeqsUpTo(AmenityGroupVariants, MaxAmenityGroups)

ReviewBlock(f, rating, details, amenities) ==
    Elem("div", ClassTokens("review_block"),
         HeaderKids(f) \o rating
         \o [i \in 1..Len(details) |-> DetailSpan(details[i])]
         \o BodyKids(f) \o amenities)

Fragments ==
    {ReviewBlock(f, r, d, a) :
        f \in Presences, r \in RatingVariants, d \in BlockDetails, a \in AmenityLists}

\* the names parse and multi_parse are called with: registered ones and
\* names trip_advisor_map does not have
LookupNames == {"reviewer_name", "reviewer_details", "review_blok", "hotel_name"}

----------------------------------------------------------------------------
(* The TripAdvisorHotelPage object before any page was parsed. *)

Columns == {"name", "review_date", "origin", "rating", "details", "title",
            "review", "stay_date", "trip_type", "amenities"}

EmptyData == [c \in Columns |-> <<>>]

PageIdle ==
    /\ page_source = <<>>
    /\ data = EmptyData
    /\ review_count = 0
    /\ calls = <<>>

CollectIdle ==
    /\ pc = "idle"
    /\ hotel = <<>>
    /\ cur = 0
    /\ close = FALSE
    /\ driver_open = FALSE
    /\ clicks = <<>>

CallIdle ==
    /\ op = "none"
    /\ arg = <<>>
    /\ ret = NotCalled

----------------------------------------------------------------------------
(* The numeric functions, each called once on an input of its domain. *)

Call_str2int ==
    /\ op = "none"
    /\ \E s \in NumberStrings :
         /\ arg' = s
         /\ ret' = str2int(s, ",")
    /\ op' = "str2int"
    /\ UNCHANGED <<pageVars, collectVars>>

Call_split_contributions_votes ==
    /\ op = "none"
    /\ \E details \in DetailLists :
         /\ arg' = details
         /\ ret' = split_contributions_votes(details)
    /\ op' = "split_contributions_votes"
    /\ UNCHANGED <<pageVars, collectVars>>

InitNum == CallIdle /\ PageIdle /\ CollectIdle

NextNum == Call_str2int \/ Call_split_contributions_votes

SpecNum == InitNum /\ [][NextNum]_vars

----------------------------------------------------------------------------
(* The extractors, each called once on a review block. *)

Call_parse ==
    /\ op = "none"
    /\ \E soup \in Fragments, ta_object \in LookupNames, text \in BOOLEAN :
         /\ arg' = [soup |-> soup, ta_object |-> ta_object, text |-> text]
         /\ ret' = parse(soup, ta_object, text)
    /\ op' = "parse"
    /\ UNCHANGED <<pageVars, collectVars>>

Call_multi_parse ==
    /\ op = "none"
    /\ \E soup \in Fragments, ta_object \in LookupNames, text \in BOOLEAN :
         /\ arg' = [soup |-> soup, ta_object |-> ta_object, text |-> text]
         /\ ret' = multi_parse(soup, ta_object, text)
    /\ op' = "multi_parse"
    /\ UNCHANGED <<pageVars, collectVars>>

Call_extract_rating ==
    /\ op = "none"
    /\ \E soup \in Fragments :
         /\ arg' = [soup |-> soup]
         /\ ret' = extract_rating(soup)
    /\ op' = "extract_rating"
    /\ UNCHANGED <<pageVars, collectVars>>

Call_accessor ==
    /\ op = "none"
    /\ \E soup \in Fragments, name \in Accessors :
         /\ arg' = [soup |-> soup]
         /\ ret' = Access(soup, name)
         /\ op' = name
    /\ UNCHANGED <<pageVars, collectVars>>

InitExtract == CallIdle /\ PageIdle /\ CollectIdle

NextExtract ==
    Call_parse \/ Call_multi_parse \/ Call_extract_rating \/ Call_accessor

SpecExtract == InitExtract /\ [][NextExtract]_vars

----------------------------------------------------------------------------
(* TripAdvisorHotelPage.parse. *)

\* the columns of self.data in the order parse appends to them, each with the
\* accessor that gives its value
RecordFields ==
    << <<"name", "reviewer_name">>, <<"review_date", "review_date">>,
       <<"origin", "reviewer_origin">>, <<"rating", "reviewer_rating">>,
       <<"details", "reviewer_details">>, <<"title", "review_title">>,
       <<"review", "review_text">>, <<"stay_date", "stay_date">>,
       <<"trip_type", "trip_type">>, <<"amenities", "amenities_rating">> >>

\* the place of a column in the order of the appends
ColumnIndex(column) ==
    CHOOSE j \in 1..Len(RecordFields) : RecordFields[j][1] = column

AccessorOf(column) == RecordFields[ColumnIndex(column)][2]

\* what the ten accessors of one review block give, in the order parse
\* evaluates them
BlockOutcomes(tarb) ==
    [j \in 1..Len(RecordFields) |-> Access(tarb, RecordFields[j][2])]

\* the first append of a loop iteration whose accessor raises, or one past
\* the last append if none does
FirstRaise(outs) ==
    LET raising == {j \in 1..Len(outs) : ~Returned(outs[j])} IN
    IF raising = {} THEN Len(outs) + 1
    ELSE CHOOSE j \in raising : \A k \in raising : j <= k

\* the loop over the reviews, given what the accessors of each review give:
\* ten appends per review, in order; the first accessor that raises ends the
\* loop, and what was appended until then stays
LoopResult(d, outs) ==
    LET stops == [i \in 1..Len(outs) |-> FirstRaise(outs[i])]
        failing == {i \in 1..Len(outs) : stops[i] <= Len(RecordFields)}
        last == IF failing = {} THEN Len(outs) + 1
                ELSE CHOOSE i \in failing : \A k \in failing : i <= k
    IN  [data |->
            [column \in Columns |->
                LET j == ColumnIndex(column) IN
                d[column]
                \o [i \in 1..(last - 1) |-> outs[i][j].val]
                \o (IF last <= Len(outs) /\ j < stops[last]
                    THEN <<outs[last][j].val>> ELSE <<>>)],
         exc |-> IF last <= Len(outs) THEN outs[last][stops[last]].exc ELSE ""]

\* for review in reviews: tarb = TripAdvisorReviewBlock(review), the appends
ReviewLoop(d, reviews) ==
    LoopResult(d, [i \in 1..Len(reviews) |-> BlockOutcomes(reviews[i])])

\* self.review_count += len(reviews), reached only if the loop ended normally
EndOfParse(done, count, n) ==
    [data |-> done.data,
     review_count |-> IF done.exc = "" THEN count + n ELSE count,
     exc |-> done.exc]

\* TripAdvisorHotelPage.parse on the document the driver shows: the new data,
\* the new review_count and the exception that ended the call, if any
HotelPage_parse(source, d, count) ==
    LET reviews == multi_parse(source, "review_block", FALSE).val
    IN  EndOfParse(ReviewLoop(d, reviews), count, Len(reviews))

Document(blocks) == Elem("[document]", <<>>, blocks)

AllPresent == [k \in TextKeys |-> TRUE]
NonePresent == [k \in TextKeys |-> FALSE]

Rated(token) == <<RatingDiv(<<Bubble(<<"ui_bubble_rating", token>>)>>)>>

ValueGroup ==
    AmenityGroup(<<Bubble(<<"ui_bubble_rating", "bubble_50">>)>>,
                 <<Elem("span", <<>>, <<TextNode("Value")>>)>>)

\* a review with every field
FullBlock ==
    ReviewBlock(AllPresent, Rated("bubble_50"),
                <<<<"1,416", " contributions">>, <<"523", " helpful votes">>>>,
                <<ValueGroup>>)

\* a review with a rating and a name only
SparseBlock ==
    ReviewBlock([NonePresent EXCEPT !["reviewer_name"] = TRUE], Rated("bubble_30"),
                <<>>, <<>>)

\* a review without the reviewer-rating element
UnratedBlock ==
    ReviewBlock(AllPresent, <<>>, <<<<"3", " contributions">>>>, <<>>)

PageBlocks == {FullBlock, SparseBlock, UnratedBlock}

Pages == {Document(b) : b \in SeqsUpTo(PageBlocks, MaxBlocks)}

\* the driver shows another page
Show ==
    /\ Len(calls) < MaxCalls
    /\ \E page \in Pages : page_source' = page
    /\ UNCHANGED <<data, review_count, calls, callVars, collectVars>>

\* one call of parse(); an exception ends the call and leaves the object as
\* the loop left it
ParsePage ==
    /\ Len(calls) < MaxCalls
    /\ page_source \in Pages
    /\ \E r \in {HotelPage_parse(page_source, data, review_count)} :
         /\ data' = r.data
         /\ review_count' = r.review_count
         /\ calls' = Append(calls, [page |-> page_source, exc |-> r.exc])
    /\ UNCHANGED <<page_source, callVars, collectVars>>

InitPage == CallIdle /\ PageIdle /\ CollectIdle

NextPage == Show \/ ParsePage

SpecPage == InitPage /\ [][NextPage]_vars

----------------------------------------------------------------------------
(* TripAdvisorHotelPage.collect.  The hotel behind the driver is a sequence *)
(* of review pages; the paginator shows 8 links on a page that is neither   *)
(* the first nor the last and 7 links otherwise.  The pages hold reviews    *)
(* whose fields all extract, and every page has its 'Read more' button.     *)

\* _pages()
PaginatorLinks(page, npages) == IF 1 < page /\ page < npages THEN 8 ELSE 7

\* where click('Next') leads: to the next page; on the last page 'Next' is not
\* a link and the second link of the paginator is whichever link stands there
NextTargets(page, npages) ==
    IF page < npages THEN {page + 1} ELSE 1..npages

CleanPages == {Document(b) : b \in {<<FullBlock>>, <<FullBlock, SparseBlock>>}}

RECURSIVE HotelsOf(_)
HotelsOf(n) ==
    IF n = 0 THEN {<<>>}
    ELSE {Append(h, page) : h \in HotelsOf(n - 1), page \in CleanPages}

Hotels == UNION {HotelsOf(n) : n \in 1..MaxPages}

InitCollect ==
    /\ CallIdle
    /\ hotel \in Hotels
    /\ close \in BOOLEAN
    /\ cur = 1
    /\ page_source = hotel[1]
    /\ driver_open = TRUE
    /\ data = EmptyData
    /\ review_count = 0
    /\ calls = <<>>
    /\ clicks = <<>>
    /\ pc = "start"

\* self.click('Read more'); self.parse(); _stopper = 8
CollectFirstPage ==
    /\ pc = "start"
    /\ \E r \in {HotelPage_parse(page_source, data, review_count)} :
         /\ data' = r.data
         /\ review_count' = r.review_count
         /\ calls' = Append(calls, [page |-> page_source, exc |-> r.exc])
         /\ pc' = IF r.exc = "" THEN "loop" ELSE "raised"
    /\ UNCHANGED <<page_source, hotel, cur, close, driver_open, clicks, callVars>>

\* one pass of the while loop: click('Next'), click('Read more'), parse(),
\* _stopper = self._pages()
CollectNextPage ==
    /\ pc = "loop"
    /\ \E to \in NextTargets(cur, Len(hotel)) :
       \E r \in {HotelPage_parse(hotel[to], data, review_count)} :
         /\ clicks' = Append(clicks, [from |-> cur, to |-> to])
         /\ cur' = to
         /\ page_source' = hotel[to]
         /\ data' = r.data
         /\ review_count' = r.review_count
         /\ calls' = Append(calls, [page |-> hotel[to], exc |-> r.exc])
         /\ pc' = IF r.exc # "" THEN "raised"
                  ELSE IF PaginatorLinks(to, Len(hotel)) = 8 THEN "loop"
                  ELSE "closing"
    /\ UNCHANGED <<hotel, close, driver_open, callVars>>

\* if close: self.driver.close(); the two prints
CollectFinish ==
    /\ pc = "closing"
    /\ driver_open' = IF close THEN FALSE ELSE driver_open
    /\ pc' = "done"
    /\ UNCHANGED <<page_source, data, review_count, calls, hotel, cur, close,
                   clicks, callVars>>

NextCollect == CollectFirstPage \/ CollectNextPage \/ CollectFinish

SpecCollect == InitCollect /\ [][NextCollect]_vars

----------------------------------------------------------------------------
(* Claims about the numeric functions (SpecNum). *)

\* a number written with comma thousands separators: digits only, and three
\* digits in every group after the first
IsGroupedNumber(s) ==
    LET g == Split(s, ",") IN
    /\ \A i \in 1..Len(g) : IsIntLiteral(g[i])
    /\ \A i \in 2..Len(g) : Len(g[i]) = 3

NumGroups(s) == Len(Split(s, ","))

\* s read in base 10 once its separators are deleted
PlainValue(s) == IntOf(Plain(s))

\* C7 as stated: for every number string with comma thousands separators,
\* of any number of groups, str2int returns the value of the string read
\* without its separators.
C7_AnyGroups ==
    (op = "str2int" /\ IsGroupedNumber(arg)) => ret = Ret(PlainValue(arg))

\* C7 amended: for every number string with comma thousands separators of at
\* most three groups, str2int returns the value of the string read without
\* its separators.
C7_UpToThreeGroups ==
    (op = "str2int" /\ IsGroupedNumber(arg) /\ NumGroups(arg) <= 3)
        => ret = Ret(PlainValue(arg))

\* C7 witness: str2int was called on a three-group string and returned its
\* plain value.
C7_Witness == op = "str2int" /\ arg = "2,034,199" /\ ret = Ret(2034199)

Lead(d) == Split(d, " ")[1]

\* some token of d is the word contribution or contributions
HasContributionToken(d) ==
    LET t == Split(d, " ") IN
    \E i \in 1..Len(t) : t[i] \in {"contribution", "contributions"}

\* some token of d after the leading number starts with "contribution"
HasContributionPrefix(d) ==
    LET t == Split(d, " ") IN
    \E i \in 2..Len(t) : StartsWith(t[i], "contribution")

LeadsParse(details) ==
    \A i \in 1..Len(details) : Returned(str2int(Lead(details[i]), ","))

\* the number of the string of details at the largest index in hits, 0 if
\* hits is empty
LastNumber(details, hits) ==
    IF hits = {} THEN 0
    ELSE LET last == CHOOSE i \in hits : \A j \in hits : j <= i
         IN  str2int(Lead(details[last]), ",").val

\* C6 as stated: a string counts as contributions when a token after its
\* number starts with "contribution", as helpful votes otherwise; the last
\* string of each kind gives the number and the empty list gives (0, 0).
C6_PrefixRouting ==
    (op = "split_contributions_votes" /\ LeadsParse(arg))
        => LET c == {i \in 1..Len(arg) : HasContributionPrefix(arg[i])} IN
           ret = Ret(<<LastNumber(arg, c), LastNumber(arg, (1..Len(arg)) \ c)>>)

\* C6 amended: a string counts as contributions when one of its tokens is
\* exactly "contribution" or "contributions", as helpful votes otherwise; the
\* last string of each kind gives the number str2int reads from its first
\* token, the empty list gives (0, 0), and a first token str2int rejects
\* makes the call raise ValueError.
C6_ExactTokenRouting ==
    op = "split_contributions_votes"
        => IF LeadsParse(arg)
           THEN LET c == {i \in 1..Len(arg) : HasContributionToken(arg[i])} IN
                ret = Ret(<<LastNumber(arg, c), LastNumber(arg, (1..Len(arg)) \ c)>>)
           ELSE ret = Raise("ValueError")

\* C6 witness: split_contributions_votes was called on a contributions string
\* followed by a helpful-votes string and returned both numbers.
C6_Witness ==
    /\ op = "split_contributions_votes"
    /\ arg = <<"1,416 contributions", "523 helpful votes">>
    /\ ret = Ret(<<1416, 523>>)

----------------------------------------------------------------------------
(* Claims about the extractors (SpecExtract). *)

Unregistered(name) == name \notin DOMAIN trip_advisor_map

RatingMissing(soup) ==
    LET found == FindAll(soup, trip_advisor_map.reviewer_rating) IN
    Len(found) = 0 \/ Len(FindAllClassed(found[1])) = 0

\* C2: extract_rating returns -1 when the rating element or its class-bearing
\* child is missing, and whatever it returns is -1 or in 1..5.
C2_MissingRatingGivesSentinel ==
    op \in {"extract_rating", "reviewer_rating"}
        => /\ RatingMissing(arg.soup) => ret = Ret(-1)
           /\ Returned(ret) => ret.val \in {-1} \cup 1..5

\* the registry key each accessor looks up
AccessorKey(name) ==
    CASE name = "review_date" -> "reviewer_name_n_date"
      [] name = "amenities_rating" -> "amenity_group"
      [] OTHER -> name

DefaultOf(name) ==
    CASE name = "reviewer_details" -> Ret(<<0, 0>>)
      [] name = "amenities_rating" -> Ret(<<>>)
      [] OTHER -> Ret(PyStr(""))

\* C5: an accessor whose element is not in the block returns its default:
\* '' for the seven text fields, (0, 0) for reviewer_details and [] for
\* amenities_rating.
C5_AbsentFieldGivesDefault ==
    (/\ op \in Accessors \ {"reviewer_rating"}
     /\ Len(FindAll(arg.soup, trip_advisor_map[AccessorKey(op)])) = 0)
        => ret = DefaultOf(op)

AmenityGroupsOf(soup) == FindAll(soup, trip_advisor_map.amenity_group)

\* the rating digits of the bubbles of one amenity group
GroupDigits(group) ==
    LET v == GroupRatingValues(group) IN
    [i \in 1..Len(v) |->
        LET c == ClassDigit(v[i]) IN IF Returned(c) THEN IntOfChar(c.val) ELSE c]

\* every amenity group has a name and exactly one bubble with a rating 1..5
GroupsRated(soup) ==
    \A i \in 1..Len(AmenityGroupsOf(soup)) :
        LET g == AmenityGroupsOf(soup)[i] IN
        /\ Len(FindAllText(g)) >= 1
        /\ Len(GroupDigits(g)) = 1
        /\ Returned(GroupDigits(g)[1])
        /\ GroupDigits(g)[1].val \in 1..5

\* the number a returned rating stands for, be it an int or a digit character
RatingNumber(r) == IF r.t = "str" THEN DigitVal(r.v) ELSE r.v

\* C8: amenities_rating returns one pair per amenity group, in document
\* order: the group's first text node with the rating of that group's own
\* bubble, whatever the number of text nodes in the groups.
C8_PairsStayInTheirGroup ==
    (op = "amenities_rating" /\ GroupsRated(arg.soup))
        => /\ Returned(ret)
           /\ Len(ret.val) = Len(AmenityGroupsOf(arg.soup))
           /\ \A i \in 1..Len(ret.val) :
                LET g == AmenityGroupsOf(arg.soup)[i] IN
                /\ ret.val[i][1] = FindAllText(g)[1].text
                /\ RatingNumber(ret.val[i][2]) = GroupDigits(g)[1].val

----------------------------------------------------------------------------
(* Claims about TripAdvisorHotelPage.parse (SpecPage). *)

\* the review blocks of all parsed pages, in call order and document order
ParsedBlocks ==
    Flatten([i \in 1..Len(calls) |-> FindAll(calls[i].page, trip_advisor_map.review_block)])

\* every accessor of the block returns
Extractable(block) == \A name \in Accessors : Returned(Access(block, name))

\* C1: after any sequence of parse calls, review_count is the number of
\* review blocks of the parsed pages, and every column holds one value per
\* block, the k-th being the one extracted from the k-th block.
C1_OneRecordPerBlock ==
    /\ review_count = Len(ParsedBlocks)
    /\ \A column \in Columns :
         /\ Len(data[column]) = Len(ParsedBlocks)
         /\ \A k \in 1..Len(ParsedBlocks) :
              Returned(Access(ParsedBlocks[k], AccessorOf(column)))
                  => data[column][k] = Access(ParsedBlocks[k], AccessorOf(column)).val

RECURSIVE IsSubsequence(_, _)
\* the elements of a occur in b, in the order of a
IsSubsequence(a, b) ==
    IF Len(a) = 0 THEN TRUE
    ELSE IF Len(b) = 0 THEN FALSE
    ELSE IF Head(a) = Head(b) THEN IsSubsequence(Tail(a), Tail(b))
    ELSE IsSubsequence(a, Tail(b))

\* C3: a block whose extraction raises costs only its own record: every
\* column still receives, in order, the values of all other blocks of the
\* parsed pages, those before and those after the failing block.
C3_FailureIsolatedToBlock ==
    LET good == SelectSeq(ParsedBlocks, Extractable) IN
    \A column \in Columns :
        IsSubsequence([k \in 1..Len(good) |-> Access(good[k], AccessorOf(column)).val],
                      data[column])

\* C10: the ten columns of self.data always have the same length, and it is
\* review_count.
C10_ColumnsAligned ==
    \A column \in Columns : Len(data[column]) = review_count

----------------------------------------------------------------------------
(* Claims about TripAdvisorHotelPage.collect (SpecCollect). *)

\* the pages parse() ran on, in order
ParsedPageNumbers ==
    IF pc = "start" THEN <<>>
    ELSE <<1>> \o [i \in 1..Len(clicks) |-> clicks[i].to]

\* C9: collect never clicks 'Next' on the last page, and when it is done it
\* has parsed each of the pages 1..P once, in increasing order, and has closed
\* the driver exactly if close is True.
C9_EveryPageOnce ==
    /\ \A i \in 1..Len(clicks) : clicks[i].from < Len(hotel)
    /\ pc = "done" =>
         /\ ParsedPageNumbers = [i \in 1..Len(hotel) |-> i]
         /\ driver_open = ~close

=============================================================================
